---- MODULE Spec2Model ----
(***************************************************************************)
(* A model of surahkit.js: the module-level cache (a Map from the          *)
(* normalized language to either the promise of a running retrieval or     *)
(* the parsed data), SurahKit.loadAll with its inner async retrieval, and  *)
(* SurahKit.clearCache, and the four searches built on loadAll.            *)
(*                                                                         *)
(* JavaScript runs one job at a time.  An async function runs              *)
(* synchronously up to its first await, so each action below is one such   *)
(* uninterrupted run: a call of loadAll up to the point where it returns   *)
(* its promise, the part of a retrieval between two awaits, the            *)
(* continuation of a caller awaiting loadAll, or a call of clearCache.     *)
(***************************************************************************)
EXTENDS Naturals, Sequences, FiniteSets

VARIABLES
    cache,     \* the Map `cache`: key -> absent | promise of retrieval r | data of retrieval r
    ret,       \* the retrievals (runs of fetchAndCachePromise) that can still be observed
    waiting,   \* per retrieval, the number of callers suspended on its promise
    event,     \* what the last step was and what its caller was given
    orphaned,  \* history: the retrievals that were in flight when clearCache ran
    memo,      \* history: per key, TRUE once the entry was resolved with data since the last clearCache
    afterClear, \* history: per key, TRUE from a clearCache that removed resolved data until the next loadAll of the key
    asking,    \* per retrieval, how many of the callers suspended on its promise are searches
    query,     \* the search the last step called or resumed, and what it gave its caller
    starts,    \* count: per key, the retrievals started
    failures,  \* count: per key, the retrievals that failed
    clears,    \* count: the calls of clearCache
    quran,     \* the data a search searches: the array res.json() gave
    answer     \* what the search of the data gave: a record, records or an error

vars == <<cache, ret, waiting, event, orphaned, memo, afterClear, asking, query,
          starts, failures, clears, quran, answer>>

-----------------------------------------------------------------------------
(* Bounds of the model *)

\* retrievals that exist at once (running, or settled and still referenced)
MaxRetrievals == 2
\* callers suspended in loadAll at once, plus the one calling
NumCallers == 2
\* where the counts of started and failed retrievals and of clearCache calls stop
MaxCount == 3
\* the records of a data file
MaxRecords == 3
\* the elements of the array ids
MaxIds == 2

-----------------------------------------------------------------------------
(* Strings are sequences of one-character strings. *)

Lower(ch) ==
    CASE ch = "A" -> "a"
      [] ch = "B" -> "b"
      [] OTHER -> ch

IsSpace(ch) == ch = " "

RECURSIVE TrimStart(_)
TrimStart(s) ==
    IF s = <<>> THEN s
    ELSE IF IsSpace(Head(s)) THEN TrimStart(Tail(s)) ELSE s

RECURSIVE TrimEnd(_)
TrimEnd(s) ==
    IF s = <<>> THEN s
    ELSE IF IsSpace(s[Len(s)]) THEN TrimEnd(SubSeq(s, 1, Len(s) - 1)) ELSE s

\* String.prototype.trim
Trim(s) == TrimEnd(TrimStart(s))

\* String.prototype.toLowerCase
ToLowerCase(s) == [i \in 1..Len(s) |-> Lower(s[i])]

\* A variant of SafeLanguage that forgets toLowerCase().
SafeLanguageNoLowerCase(language) == Trim(language)

\* line 24: language.trim().toLowerCase()
SafeLanguage(language) == ToLowerCase(Trim(language))

\* the language argument left out (undefined)
Undefined == <<"undefined">>

\* line 20: !language
NoLanguage(language) == language \in { <<>>, Undefined }

\* The language arguments the host application passes.
Languages ==
    { <<>>, Undefined, <<"a">>, <<" ", "A", " ">>, <<"b">> }

\* the languages that pass the check of line 20
Given == { l \in Languages : ~NoLanguage(l) }

Keys == { SafeLanguage(l) : l \in Given }

-----------------------------------------------------------------------------
(* Values *)

Retrievals == 1..MaxRetrievals

Absent == [kind |-> "absent", r |-> 0]
PromiseOf(r) == [kind |-> "promise", r |-> r]
DataOf(r) == [kind |-> "data", r |-> r]

\* "no language": the step was not a call of loadAll
NoLang == <<"-">>

Unused == [st |-> "unused", key |-> <<>>]

Event(op, lang, how, r, st) ==
    [op |-> op, lang |-> lang, how |-> how, r |-> r, st |-> st]

\* a step of a retrieval ("retrieval") or a call of clearCache: no caller
\* was given anything
Step(op, r) == Event(op, NoLang, "none", r, "none")

-----------------------------------------------------------------------------
(* The arguments of the searches are JavaScript values: null (or           *)
(* undefined), a string, a number written with its decimal digits, or an   *)
(* array of such values.                                                   *)

Null == [t |-> "null", v |-> <<>>]
Str(s) == [t |-> "string", v |-> s]
Num(digits) == [t |-> "number", v |-> digits]
Arr(xs) == [t |-> "array", v |-> xs]

\* A variant of Falsy that takes only null for a missing value.
FalsyOnlyNull(x) == x.t = "null"

\* !x
Falsy(x) ==
    \/ x.t = "null"
    \/ x.t = "string" /\ x.v = <<>>
    \/ x.t = "number" /\ x.v = <<"0">>

\* String(x)
ToStr(x) ==
    CASE x.t = "null" -> <<"n", "u", "l", "l">>
      [] OTHER -> x.v

\* What a search gave its caller: nothing yet ("waiting"), a result
\* ("returned") or an error ("failed"); why says which, and r is the
\* retrieval whose data the result is computed from or whose error it is.
Out(kind, why, r) == [kind |-> kind, why |-> why, r |-> r]

Query(op, arg, out) == [op |-> op, arg |-> arg, out |-> out]

\* the step was not a step of a search
NoQuery == Query("none", Null, Out("none", "none", 0))

\* What searching the data gave: a record (v is the record), records (v is
\* their sequence) or a thrown error (v is its message).
Answer(kind, v) == [kind |-> kind, v |-> v]

Thrown(message) == Answer("error", message)

NoAnswer == Answer("none", "none")

-----------------------------------------------------------------------------
\* A variant of CacheHas that takes a pending entry for a missing one.
CacheHasDataOnly(key) == cache[key].kind = "data"

\* line 27: cache.has(safeLanguage)
CacheHas(key) == cache[key].kind # "absent"

\* A retrieval is in flight from its fetch until its promise settles.
InFlight(r) == ret[r].st \in {"fetching", "parsing"}

Settled(r) == ret[r].st \in {"fulfilled", "rejected"}

InFlightFor(key) == { r \in Retrievals : InFlight(r) /\ ret[r].key = key }

RECURSIVE SumUpTo(_, _)
SumUpTo(w, n) == IF n = 0 THEN 0 ELSE w[n] + SumUpTo(w, n - 1)

\* the number of callers suspended in loadAll
Suspended == SumUpTo(waiting, MaxRetrievals)

\* A caller can call when not all callers are suspended.
CanCall == Suspended < NumCallers

\* What the promise of a settled retrieval holds: the data array res.json()
\* gave it, or the error object it threw.
OutcomeOf(r) ==
    IF ret[r].st = "fulfilled" THEN <<"data", r>> ELSE <<"error", r>>

-----------------------------------------------------------------------------
(* A settled retrieval that nothing refers to any more (not the cache, no  *)
(* suspended caller, not the step just taken) cannot be observed again:    *)
(* its record is dropped and its number is free for a later retrieval.     *)

Forgotten(retN, cacheN, waitingN, eventN, r) ==
    /\ retN[r].st \in {"fulfilled", "rejected"}
    /\ \A k \in Keys : cacheN[k].r # r
    /\ waitingN[r] = 0
    /\ eventN.r # r

Kept(retN, cacheN, waitingN, eventN) ==
    [r \in Retrievals |->
        IF Forgotten(retN, cacheN, waitingN, eventN, r) THEN Unused ELSE retN[r]]

KeptOrphans(orphN, retN, cacheN, waitingN, eventN) ==
    { r \in orphN : ~Forgotten(retN, cacheN, waitingN, eventN, r) }

\* r is free for a new retrieval: unused, or forgotten once the step that
\* is about to be taken replaces the last one
Free(r) ==
    \/ ret[r].st = "unused"
    \/ Forgotten(ret, cache, waiting, Step("next", 0), r)

\* the number a new retrieval gets
FreeRetrieval ==
    CHOOSE q \in Retrievals : Free(q) /\ \A p \in Retrievals : Free(p) => q <= p

-----------------------------------------------------------------------------
Init ==
    /\ cache = [k \in Keys |-> Absent]
    /\ ret = [r \in Retrievals |-> Unused]
    /\ waiting = [r \in Retrievals |-> 0]
    /\ event = Step("init", 0)
    /\ orphaned = {}
    /\ memo = [k \in Keys |-> FALSE]
    /\ afterClear = [k \in Keys |-> FALSE]
    /\ asking = [r \in Retrievals |-> 0]
    /\ query = NoQuery
    /\ starts = [k \in Keys |-> 0]
    /\ failures = [k \in Keys |-> 0]
    /\ clears = 0
    /\ quran = <<>>
    /\ answer = NoAnswer

-----------------------------------------------------------------------------
(* The writes of the cache *)

\* A variant of CacheAfterStart that does not store the promise.
CacheAfterStartNotStored(key, r) == cache

\* line 59: cache.set(safeLanguage, fetchAndCachePromise)
CacheAfterStart(key, r) == [cache EXCEPT ![key] = PromiseOf(r)]

\* line 48: cache.set(safeLanguage, data)
CacheAfterSuccess(r) == [cache EXCEPT ![ret[r].key] = DataOf(r)]

\* A variant of CacheAfterFailure that empties the cache.
CacheAfterFailureEmptied(r) == [k \in Keys |-> Absent]

\* line 53: cache.delete(safeLanguage)
CacheAfterFailure(r) == [cache EXCEPT ![ret[r].key] = Absent]

\* line 144: cache.clear()
CacheAfterClear == [k \in Keys |-> Absent]

-----------------------------------------------------------------------------
(* loadAll *)

\* lines 20-22: a falsy language is rejected before anything else.
LoadAllInvalid(language) ==
    /\ CanCall
    /\ NoLanguage(language)
    /\ event' = Event("loadAll", language, "invalid", 0, "failed")
    /\ ret' = Kept(ret, cache, waiting, event')
    /\ orphaned' = KeptOrphans(orphaned, ret, cache, waiting, event')
    /\ UNCHANGED <<cache, waiting, memo, afterClear>>

\* lines 24-29: the cache has the key; the stored value is returned, the
\* data at once, a promise by waiting for it.
LoadAllCached(language) ==
    /\ CanCall
    /\ ~NoLanguage(language)
    /\ LET key == SafeLanguage(language)
           e == cache[key]
       IN /\ CacheHas(key)
          /\ IF e.kind = "data"
             THEN /\ event' = Event("loadAll", language, "hit", e.r, "returned")
                  /\ waiting' = waiting
             ELSE /\ event' = Event("loadAll", language, "joined", e.r, "waiting")
                  /\ waiting' = [waiting EXCEPT ![e.r] = @ + 1]
          /\ afterClear' = [afterClear EXCEPT ![key] = FALSE]
    /\ ret' = Kept(ret, cache, waiting', event')
    /\ orphaned' = KeptOrphans(orphaned, ret, cache, waiting', event')
    /\ UNCHANGED <<cache, memo>>

\* lines 24-61: the cache lacks the key; the retrieval starts and runs to
\* its first await (or fetch throws at once and the catch block runs), then
\* its promise is stored and returned.
LoadAllFetch(language, throws) ==
    /\ CanCall
    /\ ~NoLanguage(language)
    /\ \E q \in Retrievals : Free(q)
    /\ LET key == SafeLanguage(language)
           r == FreeRetrieval
           started == [ret EXCEPT ![r] =
                         [st |-> IF throws THEN "rejected" ELSE "fetching",
                          key |-> key]]
       IN /\ ~CacheHas(key)
          \* the catch block's cache.delete (line 53) finds nothing to
          \* delete: cache.set (line 59) has not run yet
          /\ cache' = CacheAfterStart(key, r)
          /\ waiting' = [waiting EXCEPT ![r] = @ + 1]
          /\ event' = Event("loadAll", language, "started", r, "waiting")
          /\ afterClear' = [afterClear EXCEPT ![key] = FALSE]
          /\ ret' = Kept(started, cache', waiting', event')
          /\ orphaned' = KeptOrphans(orphaned \ {r}, started, cache', waiting', event')
    /\ UNCHANGED memo

-----------------------------------------------------------------------------
(* The retrieval: the async function of lines 32-56 *)

\* lines 51-55: the catch block
Fail(r) ==
    LET failed == [ret EXCEPT ![r].st = "rejected"]
    IN /\ cache' = CacheAfterFailure(r)
       /\ event' = Step("retrieval", r)
       /\ ret' = Kept(failed, cache', waiting, event')
       /\ orphaned' = KeptOrphans(orphaned, failed, cache', waiting, event')
       /\ UNCHANGED <<waiting, memo, afterClear>>

\* line 36: fetch rejects
FetchRejects(r) ==
    /\ ret[r].st = "fetching"
    /\ Fail(r)

\* lines 36-43: fetch answers with a status that is not ok
FetchNotOk(r) ==
    /\ ret[r].st = "fetching"
    /\ Fail(r)

\* lines 36-45: fetch answers ok and the body is read
FetchOk(r) ==
    /\ ret[r].st = "fetching"
    /\ event' = Step("retrieval", r)
    /\ ret' = Kept([ret EXCEPT ![r].st = "parsing"], cache, waiting, event')
    /\ orphaned' = KeptOrphans(orphaned, ret', cache, waiting, event')
    /\ UNCHANGED <<cache, waiting, memo, afterClear>>

\* line 45: res.json() rejects
JsonRejects(r) ==
    /\ ret[r].st = "parsing"
    /\ Fail(r)

\* lines 45-49: res.json() yields the data
JsonOk(r) ==
    LET done == [ret EXCEPT ![r].st = "fulfilled"]
    IN /\ ret[r].st = "parsing"
       /\ cache' = CacheAfterSuccess(r)
       /\ memo' = [memo EXCEPT ![ret[r].key] = TRUE]
       /\ event' = Step("retrieval", r)
       /\ ret' = Kept(done, cache', waiting, event')
       /\ orphaned' = KeptOrphans(orphaned, done, cache', waiting, event')
       /\ UNCHANGED <<waiting, afterClear>>

-----------------------------------------------------------------------------
\* The continuation of a caller awaiting the promise loadAll returned: it
\* receives what the promise holds.
Resume(r) ==
    /\ waiting[r] > 0
    /\ Settled(r)
    /\ waiting' = [waiting EXCEPT ![r] = @ - 1]
    /\ event' = Event("resume", NoLang, "none", r,
                      IF ret[r].st = "fulfilled" THEN "returned" ELSE "failed")
    /\ ret' = Kept(ret, cache, waiting', event')
    /\ orphaned' = KeptOrphans(orphaned, ret, cache, waiting', event')
    /\ UNCHANGED <<cache, memo, afterClear>>

\* lines 143-145
ClearCache ==
    /\ cache' = CacheAfterClear
    /\ memo' = [k \in Keys |-> FALSE]
    /\ afterClear' = [k \in Keys |-> afterClear[k] \/ cache[k].kind = "data"]
    /\ event' = Step("clearCache", 0)
    /\ ret' = Kept(ret, cache', waiting, event')
    /\ orphaned' = KeptOrphans(orphaned \cup { r \in Retrievals : InFlight(r) },
                               ret, cache', waiting, event')
    /\ UNCHANGED waiting

-----------------------------------------------------------------------------
(* The searches: searchById, searchByIds, searchByName, searchByPhrase *)

\* The arguments the host application passes to the searches.
Ids == { Null, Str(<<>>), Str(<<"1">>) }
IdLists == { Null, Arr(<<>>), Arr(<<Str(<<"1">>)>>) }
Words == { Null, Str(<<>>), Str(<<"x">>) }

\* a search that ends before it calls loadAll, whatever the language is
EndsAtOnce(op, arg, out) ==
    /\ CanCall
    /\ query' = Query(op, arg, out)
    /\ event' = Step("search", 0)
    /\ ret' = Kept(ret, cache, waiting, event')
    /\ orphaned' = KeptOrphans(orphaned, ret, cache, waiting, event')
    /\ UNCHANGED <<cache, waiting, memo, afterClear, asking>>

\* line 73: if (!id) throw
SearchByIdInvalid(language, id) ==
    /\ Falsy(id)
    /\ EndsAtOnce("searchById", id, Out("failed", "id required", 0))

\* A variant of EmptyIds that forgets the test of the length.
EmptyIdsNoLength(ids) == Falsy(ids)

\* line 96: !ids || ids.length === 0
EmptyIds(ids) == Falsy(ids) \/ Len(ids.v) = 0

\* line 96: return []
SearchByIdsEmpty(language, ids) ==
    /\ EmptyIds(ids)
    /\ EndsAtOnce("searchByIds", ids, Out("returned", "empty", 0))

\* line 115: if (!keyword) return []
SearchByNameEmpty(language, keyword) ==
    /\ Falsy(keyword)
    /\ EndsAtOnce("searchByName", keyword, Out("returned", "empty", 0))

\* line 131: if (!phrase) return []
SearchByPhraseEmpty(language, phrase) ==
    /\ Falsy(phrase)
    /\ EndsAtOnce("searchByPhrase", phrase, Out("returned", "empty", 0))

\* lines 75, 98, 117, 133: await this.loadAll(language).  The call of loadAll
\* runs as it does for any caller.  When it throws, the search fails with
\* that error; when it returns the data, the search goes on to search them;
\* when it returns a promise, the search is suspended on it.
AwaitLoadAll(op, language, arg) ==
    /\ \/ LoadAllInvalid(language)
       \/ LoadAllCached(language)
       \/ \E throws \in BOOLEAN : LoadAllFetch(language, throws)
    /\ asking' = IF event'.st = "waiting"
                 THEN [asking EXCEPT ![event'.r] = @ + 1]
                 ELSE asking
    /\ query' = Query(op, arg,
                      CASE event'.st = "waiting" -> Out("waiting", "none", event'.r)
                        [] event'.st = "failed" -> Out("failed", "language required", 0)
                        [] OTHER -> Out("searched", "data", event'.r))

\* lines 72-75
SearchById(language, id) ==
    /\ ~Falsy(id)
    /\ AwaitLoadAll("searchById", language, id)

\* lines 95-98
SearchByIds(language, ids) ==
    /\ ~EmptyIds(ids)
    /\ AwaitLoadAll("searchByIds", language, ids)

\* lines 114-117
SearchByName(language, keyword) ==
    /\ ~Falsy(keyword)
    /\ AwaitLoadAll("searchByName", language, keyword)

\* lines 130-133
SearchByPhrase(language, phrase) ==
    /\ ~Falsy(phrase)
    /\ AwaitLoadAll("searchByPhrase", language, phrase)

\* What a search suspended on retrieval r gets when it resumes: the error
\* the promise was rejected with, thrown on as it is, or the data to search.
Awaited(r) ==
    IF ret[r].st = "fulfilled"
    THEN Out("searched", "data", r)
    ELSE Out("failed", "retrieval", r)

\* lines 75, 98, 117, 133: the continuation of a search after its await
SearchResumes(r) ==
    /\ asking[r] > 0
    /\ Resume(r)
    /\ asking' = [asking EXCEPT ![r] = @ - 1]
    /\ query' = Query("resumed", Null, Awaited(r))

\* a step in which no data are searched
Unanswered == UNCHANGED <<quran, answer>>

\* a step that is not a step of a search
NotSearch ==
    /\ asking' = asking
    /\ query' = NoQuery
    /\ Unanswered

\* the continuation of a caller that called loadAll itself
CallerResumes(r) ==
    /\ waiting[r] > asking[r]
    /\ Resume(r)
    /\ NotSearch

-----------------------------------------------------------------------------
(* The host application calls loadAll and clearCache (and no search).      *)
(* Nothing is counted.                                                     *)

Uncounted == UNCHANGED <<starts, failures, clears>>

Next ==
    \/ \E l \in Languages : LoadAllInvalid(l) /\ NotSearch /\ Uncounted
    \/ \E l \in Languages : LoadAllCached(l) /\ NotSearch /\ Uncounted
    \/ \E l \in Languages, t \in BOOLEAN : LoadAllFetch(l, t) /\ NotSearch /\ Uncounted
    \/ \E r \in Retrievals : FetchRejects(r) /\ NotSearch /\ Uncounted
    \/ \E r \in Retrievals : FetchNotOk(r) /\ NotSearch /\ Uncounted
    \/ \E r \in Retrievals : FetchOk(r) /\ NotSearch /\ Uncounted
    \/ \E r \in Retrievals : JsonRejects(r) /\ NotSearch /\ Uncounted
    \/ \E r \in Retrievals : JsonOk(r) /\ NotSearch /\ Uncounted
    \/ \E r \in Retrievals : CallerResumes(r) /\ Uncounted
    \/ ClearCache /\ NotSearch /\ Uncounted

Spec == Init /\ [][Next]_vars

\* The runs in which clearCache is never called and nothing fails.
NextQuiet ==
    \/ \E l \in Languages : LoadAllCached(l) /\ NotSearch /\ Uncounted
    \/ \E l \in Languages : LoadAllFetch(l, FALSE) /\ NotSearch /\ Uncounted
    \/ \E r \in Retrievals : FetchOk(r) /\ NotSearch /\ Uncounted
    \/ \E r \in Retrievals : JsonOk(r) /\ NotSearch /\ Uncounted
    \/ \E r \in Retrievals : CallerResumes(r) /\ Uncounted

SpecQuiet == Init /\ [][NextQuiet]_vars

\* The runs in which clearCache is never called.
NextNoClear ==
    \/ \E l \in Languages : LoadAllInvalid(l) /\ NotSearch /\ Uncounted
    \/ \E l \in Languages : LoadAllCached(l) /\ NotSearch /\ Uncounted
    \/ \E l \in Languages, t \in BOOLEAN : LoadAllFetch(l, t) /\ NotSearch /\ Uncounted
    \/ \E r \in Retrievals : FetchRejects(r) /\ NotSearch /\ Uncounted
    \/ \E r \in Retrievals : FetchNotOk(r) /\ NotSearch /\ Uncounted
    \/ \E r \in Retrievals : FetchOk(r) /\ NotSearch /\ Uncounted
    \/ \E r \in Retrievals : JsonRejects(r) /\ NotSearch /\ Uncounted
    \/ \E r \in Retrievals : JsonOk(r) /\ NotSearch /\ Uncounted
    \/ \E r \in Retrievals : CallerResumes(r) /\ Uncounted

SpecNoClear == Init /\ [][NextNoClear]_vars

\* The host application calls everything the kit exports.
NextSearch ==
    \/ Next
    \/ \E l \in Languages, id \in Ids : SearchByIdInvalid(l, id) /\ Uncounted /\ Unanswered
    \/ \E l \in Languages, ids \in IdLists : SearchByIdsEmpty(l, ids) /\ Uncounted /\ Unanswered
    \/ \E l \in Languages, w \in Words : SearchByNameEmpty(l, w) /\ Uncounted /\ Unanswered
    \/ \E l \in Languages, w \in Words : SearchByPhraseEmpty(l, w) /\ Uncounted /\ Unanswered
    \/ \E l \in Languages, id \in Ids : SearchById(l, id) /\ Uncounted /\ Unanswered
    \/ \E l \in Languages, ids \in IdLists : SearchByIds(l, ids) /\ Uncounted /\ Unanswered
    \/ \E l \in Languages, w \in Words : SearchByName(l, w) /\ Uncounted /\ Unanswered
    \/ \E l \in Languages, w \in Words : SearchByPhrase(l, w) /\ Uncounted /\ Unanswered
    \/ \E r \in Retrievals : SearchResumes(r) /\ Uncounted /\ Unanswered

SpecSearch == Init /\ [][NextSearch]_vars

\* The transport settles every request: the promise fetch returned settles
\* (line 36), and so does the promise res.json() returned (line 45).
Settles(r) ==
    /\ \/ FetchRejects(r)
       \/ FetchNotOk(r)
       \/ FetchOk(r)
       \/ JsonRejects(r)
       \/ JsonOk(r)
    /\ NotSearch
    /\ Uncounted

\* The job queue runs the continuation of every caller whose promise has
\* settled: that of a caller of loadAll,
CallerContinues(r) == CallerResumes(r) /\ Uncounted

\* and that of a search.
SearchContinues(r) == SearchResumes(r) /\ Uncounted /\ Unanswered

\* The same runs, in which the transport settles every request and the
\* job queue runs every continuation.  Neither loadAll nor the searches set
\* a timer.
SpecSettling ==
    /\ SpecSearch
    /\ \A r \in Retrievals :
          /\ WF_vars(Settles(r))
          /\ WF_vars(CallerContinues(r))
          /\ WF_vars(SearchContinues(r))

-----------------------------------------------------------------------------
(* The same calls of loadAll and clearCache, with the retrievals started, *)
(* the retrievals failed and the calls of clearCache counted, up to        *)
(* MaxCount each.                                                          *)

\* a retrieval was started for the key
CountStart(key) ==
    /\ starts[key] < MaxCount
    /\ starts' = [starts EXCEPT ![key] = @ + 1]

\* a retrieval for the key failed
CountFailure(key) ==
    /\ failures[key] < MaxCount
    /\ failures' = [failures EXCEPT ![key] = @ + 1]

\* the catch block of retrieval r ran
Failure(r) ==
    /\ CountFailure(ret[r].key)
    /\ UNCHANGED <<starts, clears>>
    /\ NotSearch

NextCounted ==
    \/ \E l \in Languages : LoadAllInvalid(l) /\ NotSearch /\ Uncounted
    \/ \E l \in Languages : LoadAllCached(l) /\ NotSearch /\ Uncounted
    \/ \E l \in Given :
          /\ LoadAllFetch(l, FALSE)
          /\ CountStart(SafeLanguage(l))
          /\ UNCHANGED <<failures, clears>>
          /\ NotSearch
    \/ \E l \in Given :
          /\ LoadAllFetch(l, TRUE)
          /\ CountStart(SafeLanguage(l))
          /\ CountFailure(SafeLanguage(l))
          /\ UNCHANGED clears
          /\ NotSearch
    \/ \E r \in Retrievals : FetchRejects(r) /\ Failure(r)
    \/ \E r \in Retrievals : FetchNotOk(r) /\ Failure(r)
    \/ \E r \in Retrievals : FetchOk(r) /\ NotSearch /\ Uncounted
    \/ \E r \in Retrievals : JsonRejects(r) /\ Failure(r)
    \/ \E r \in Retrievals : JsonOk(r) /\ NotSearch /\ Uncounted
    \/ \E r \in Retrievals : CallerResumes(r) /\ Uncounted
    \/ /\ ClearCache
       /\ clears < MaxCount
       /\ clears' = clears + 1
       /\ UNCHANGED <<starts, failures>>
       /\ NotSearch

SpecCounted == Init /\ [][NextCounted]_vars

-----------------------------------------------------------------------------
(* Searching the data: the part of searchById and searchByIds after the    *)
(* await, on the data of a language that is resolved in the cache.         *)

\* a SurahItem, with the fields the searches by id look at or return
Record(id, surah) == [id |-> id, surah |-> surah]

\* The records the data files hold.
Records ==
    { Record(<<"1">>, "The Opener"), Record(<<"2">>, "The Cow"),
      Record(<<"0", "2">>, "The Cow (02)"), Record(<<"1">>, "The Opener (again)") }

\* The data files: arrays of at most MaxRecords records.
Partitions == UNION { [1..n -> Records] : n \in 0..MaxRecords }

\* The ids the host application asks for.
AskedIds ==
    { Null, Str(<<>>), Str(<<" ">>), Num(<<"0">>), Num(<<"2">>), Str(<<"1">>),
      Str(<<" ", "2">>), Str(<<"0", "2">>), Str(<<"3", "b">>) }

\* The elements of the arrays of ids the host application asks for.
AskedElements == { Str(<<"1">>), Str(<<" ", "2">>), Num(<<"2">>) }

\* The arrays of ids: null, or at most MaxIds elements.
AskedIdLists ==
    { Null } \cup { Arr(xs) : xs \in UNION { [1..n -> AskedElements] : n \in 0..MaxIds } }

\* A variant of FindFrom that finds the last record with the id.
RECURSIVE FindLastFrom(_, _, _)
FindLastFrom(q, surahId, i) ==
    IF i > Len(q) THEN 0
    ELSE LET later == FindLastFrom(q, surahId, i + 1)
         IN IF later # 0 THEN later ELSE IF q[i].id = surahId THEN i ELSE 0

\* line 79: quran.find(s => s.id === surahId), from index i on; 0 is undefined
RECURSIVE FindFrom(_, _, _)
FindFrom(q, surahId, i) ==
    IF i > Len(q) THEN 0
    ELSE IF q[i].id = surahId THEN i ELSE FindFrom(q, surahId, i + 1)

\* lines 76-85
ById(q, id) ==
    LET surahId == Trim(ToStr(id))
        found == FindFrom(q, surahId, 1)
    IN IF found = 0 THEN Thrown("not found") ELSE Answer("record", q[found])

\* A variant of IdSet that forgets to trim.
IdSetNoTrim(ids) == { ToStr(ids.v[i]) : i \in 1..Len(ids.v) }

\* line 101: new Set(ids.map(id => String(id).trim()))
IdSet(ids) == { Trim(ToStr(ids.v[i])) : i \in 1..Len(ids.v) }

\* line 104: quran.filter(s => idSet.has(s.id))
ByIds(q, ids) ==
    LET idSet == IdSet(ids)
        Has(s) == s.id \in idSet
    IN Answer("records", SelectSeq(q, Has))

\* What a search that has awaited loadAll goes on to give: an error thrown
\* by loadAll, nothing while it is suspended, or the result of searching
\* the data.
AfterAwait(result) ==
    CASE query'.out.kind = "failed" -> Thrown(query'.out.why)
      [] query'.out.kind = "waiting" -> NoAnswer
      [] OTHER -> result

\* lines 72-86
AnswerById(language, id) ==
    /\ \/ SearchByIdInvalid(language, id) /\ answer' = Thrown("id required")
       \/ SearchById(language, id) /\ answer' = AfterAwait(ById(quran, id))
    /\ quran' = quran
    /\ Uncounted

\* lines 95-105
AnswerByIds(language, ids) ==
    /\ \/ SearchByIdsEmpty(language, ids) /\ answer' = Answer("records", <<>>)
       \/ SearchByIds(language, ids) /\ answer' = AfterAwait(ByIds(quran, ids))
    /\ quran' = quran
    /\ Uncounted

\* The language "a" has been loaded: its retrieval has stored the data and
\* its caller has resumed.
InitLoaded ==
    /\ cache = [k \in Keys |-> IF k = <<"a">> THEN DataOf(1) ELSE Absent]
    /\ ret = [r \in Retrievals |->
                IF r = 1 THEN [st |-> "fulfilled", key |-> <<"a">>] ELSE Unused]
    /\ waiting = [r \in Retrievals |-> 0]
    /\ event = Event("resume", NoLang, "none", 1, "returned")
    /\ orphaned = {}
    /\ memo = [k \in Keys |-> k = <<"a">>]
    /\ afterClear = [k \in Keys |-> FALSE]
    /\ asking = [r \in Retrievals |-> 0]
    /\ query = NoQuery
    /\ starts = [k \in Keys |-> 0]
    /\ failures = [k \in Keys |-> 0]
    /\ clears = 0
    /\ quran \in Partitions
    /\ answer = NoAnswer

\* the spellings of the loaded language
Loaded == { l \in Given : SafeLanguage(l) = <<"a">> }

NextLoaded ==
    \/ \E l \in Loaded, id \in AskedIds : AnswerById(l, id)
    \/ \E l \in Loaded, ids \in AskedIdLists : AnswerByIds(l, ids)

SpecLoaded == InitLoaded /\ [][NextLoaded]_vars

-----------------------------------------------------------------------------
(* Vocabulary of the properties *)

\* the last step was a call loadAll(language) with a language that passed
\* the check of line 20
Called == event.op = "loadAll" /\ event.how # "invalid"

CalledKey == SafeLanguage(event.lang)

\* the retrievals for a key that exist
StartedFor(key) == { r \in Retrievals : ret[r].st # "unused" /\ ret[r].key = key }

\* the retrievals in flight for a key that no clearCache has cut off from the cache
CurrentFor(key) == InFlightFor(key) \ orphaned

SameLetter(x, y) ==
    \/ x = y
    \/ {x, y} = {"a", "A"}
    \/ {x, y} = {"b", "B"}

AllSpaces(s, from, to) == \A i \in from..to : s[i] = " "

\* s and t differ only in letter case and in leading or trailing whitespace
DifferOnlyInCaseOrSpace(s, t) ==
    \E i \in 0..Len(s), j \in 0..Len(t) :
        \E n \in 0..Len(s) - i :
            /\ j + n <= Len(t)
            /\ AllSpaces(s, 1, i) /\ AllSpaces(s, i + n + 1, Len(s))
            /\ AllSpaces(t, 1, j) /\ AllSpaces(t, j + n + 1, Len(t))
            /\ \A m \in 1..n : SameLetter(s[i + m], t[j + m])

-----------------------------------------------------------------------------
(* C1 *)

\* C1 (single-flight). In the runs without clearCache and without failure
\* (SpecQuiet) there is never more than one retrieval for a key, however
\* many calls are made while it is pending; every call of loadAll is bound
\* to that one retrieval, and every caller that resumes receives its data.
\* (In these runs a retrieval stays referenced by the cache, so the
\* retrievals that exist are all that were ever started.)
C1_SingleFlight ==
    /\ \A k \in Keys : Cardinality(StartedFor(k)) <= 1
    /\ Called => StartedFor(CalledKey) = {event.r}
    /\ event.op = "resume" =>
          /\ event.st = "returned"
          /\ StartedFor(ret[event.r].key) = {event.r}

\* One of several callers suspended on the same retrieval has received its
\* data, another is still to resume.
C1_Witness ==
    /\ event.op = "resume"
    /\ event.st = "returned"
    /\ waiting[event.r] >= 1

-----------------------------------------------------------------------------
(* C2 *)

\* C2 (failure eviction and retry). After a retrieval has failed the cache
\* holds no entry for its key, in particular not the rejected promise, and
\* a call of loadAll is never handed the promise of a retrieval that has
\* already failed.
C2_FailureEviction ==
    /\ \A k \in Keys :
          cache[k].kind = "promise" => ret[cache[k].r].st # "rejected"
    /\ Called /\ event.how = "joined" => ret[event.r].st # "rejected"

-----------------------------------------------------------------------------
(* C3 *)

\* C3 (shared outcome). A call of loadAll made while a retrieval for its key
\* is in flight, with callers suspended on it, is bound to that retrieval,
\* so that it receives the outcome those callers receive.  (Retrievals cut
\* off by clearCache are not counted: the reading most favourable to the
\* code.)
C3_SharedOutcome ==
    Called =>
        \A r \in CurrentFor(CalledKey) : waiting[r] > 0 => event.r = r

-----------------------------------------------------------------------------
(* C4 *)

\* C4 (memoization). Once the entry of a key has been resolved, and for as
\* long as clearCache has not been called since, every loadAll of the key
\* is served from the cache and starts no retrieval.
C4_Memoization ==
    Called /\ memo[CalledKey] => event.how = "hit"

-----------------------------------------------------------------------------
(* C5 *)

\* C5 (at most one retrieval in flight per key).  (Retrievals cut off by
\* clearCache are not counted: the reading most favourable to the code.)
C5_AtMostOneInFlight ==
    \A k \in Keys : Cardinality(CurrentFor(k)) <= 1

-----------------------------------------------------------------------------
(* C6 *)

\* C6 (clearCache empties the cache). Right after clearCache no key has an
\* entry, and the next loadAll of a key that was resolved before the clear
\* starts a retrieval.
C6_ClearThenFresh ==
    [][ /\ event'.op = "clearCache" => \A k \in Keys : cache'[k] = Absent
        /\ \A l \in Given :
              /\ event'.op = "loadAll"
              /\ event'.lang = l
              /\ afterClear[SafeLanguage(l)]
              => event'.how = "started" ]_vars

-----------------------------------------------------------------------------
(* C7 *)

\* C7 (clearCache during a retrieval). The result of a retrieval that was
\* in flight when clearCache was called is not inserted into the cache.
C7_NoInsertAfterClear ==
    \A r \in orphaned : Settled(r) => \A k \in Keys : cache[k].r # r

-----------------------------------------------------------------------------
(* C8 *)

\* C8 (entry ownership). Apart from clearCache, an entry changes only from
\* pending, and only in a step of the retrieval whose promise it holds.
C8_EntryOwnership ==
    [][ \A k \in Keys :
           /\ cache[k] # Absent
           /\ cache'[k] # cache[k]
           /\ event'.op # "clearCache"
           => /\ cache[k].kind = "promise"
              /\ event'.op = "retrieval"
              /\ event'.r = cache[k].r ]_vars

-----------------------------------------------------------------------------
(* C9 *)

\* C9 (resolved is permanent). A resolved entry stays as it is in every
\* step that is not a call of clearCache.
C9_ResolvedIsPermanent ==
    [][ \A k \in Keys :
           cache[k].kind = "data" /\ event'.op # "clearCache"
           => cache'[k] = cache[k] ]_vars

-----------------------------------------------------------------------------
(* C10 *)

\* C10 (key normalization). A call of loadAll uses the entry of the key
\* that its language differs from only in letter case and surrounding
\* whitespace: it joins the retrieval pending there, is served the data
\* resolved there, or stores its own retrieval there.
C10_KeyNormalization ==
    [][ \A l \in Given, k \in Keys :
           /\ event'.op = "loadAll"
           /\ event'.lang = l
           /\ DifferOnlyInCaseOrSpace(l, k)
           => CASE cache[k].kind = "promise" ->
                     /\ event'.how = "joined"
                     /\ event'.r = cache[k].r
                     /\ cache' = cache
                [] cache[k].kind = "data" ->
                     /\ event'.how = "hit"
                     /\ event'.r = cache[k].r
                     /\ cache' = cache
                [] OTHER ->
                     /\ event'.how = "started"
                     /\ cache'[k] = PromiseOf(event'.r) ]_vars

\* A call whose language is spelled with other case and with whitespace
\* has joined the retrieval pending under the key.
C10_Witness ==
    /\ Called
    /\ event.how = "joined"
    /\ event.lang # CalledKey
    /\ InFlight(event.r)

-----------------------------------------------------------------------------
(* C11 *)

\* the step started no retrieval: no record of a retrieval is new or changed
NoRetrievalStarted == \A r \in Retrievals : ret'[r] = ret[r] \/ ret'[r] = Unused

\* C11 (invalid input has no effect). A call of loadAll with an empty or
\* absent language, made by the host or by a search, and a call of
\* searchById with the id "" or null, with any language, fail with the
\* invalid-input error, start no retrieval and leave the cache as it is.
C11_InvalidInputNoEffect ==
    [][ /\ event'.op = "loadAll" /\ event'.lang \in { <<>>, Undefined }
           => /\ event'.how = "invalid"
              /\ event'.st = "failed"
              /\ query'.out.kind \in { "none", "failed" }
              /\ cache' = cache
              /\ NoRetrievalStarted
        /\ query'.op = "searchById" /\ query'.arg \in { Null, Str(<<>>) }
           => /\ query'.out = Out("failed", "id required", 0)
              /\ event'.op = "search"
              /\ cache' = cache
              /\ NoRetrievalStarted ]_vars

\* searchById was called with the id null while a retrieval was pending
\* in the cache, and failed.
C11_Witness ==
    /\ query.op = "searchById"
    /\ query.arg = Null
    /\ query.out.kind = "failed"
    /\ \E k \in Keys : cache[k].kind = "promise" /\ InFlight(cache[k].r)

-----------------------------------------------------------------------------
(* C12 *)

\* C12 (empty-query short circuit). searchByIds with ids absent or empty,
\* searchByName with the keyword absent or empty and searchByPhrase with
\* the phrase absent or empty return the empty sequence, whatever the cache
\* holds, without calling loadAll (so without reading the cache), without
\* starting a retrieval and without changing the cache.
C12_EmptyQueryShortCircuit ==
    [][ \/ query'.op = "searchByIds" /\ query'.arg \in { Null, Arr(<<>>) }
        \/ query'.op \in { "searchByName", "searchByPhrase" }
             /\ query'.arg \in { Null, Str(<<>>) }
        => /\ query'.out = Out("returned", "empty", 0)
           /\ event'.op = "search"
           /\ cache' = cache
           /\ NoRetrievalStarted ]_vars

\* searchByIds was called with an empty array while one key was pending
\* and another resolved, and returned the empty sequence.
C12_Witness ==
    /\ query.op = "searchByIds"
    /\ query.arg = Arr(<<>>)
    /\ query.out.why = "empty"
    /\ \E k \in Keys : cache[k].kind = "promise"
    /\ \E k \in Keys : cache[k].kind = "data"

-----------------------------------------------------------------------------
(* C13 *)

\* C13 (fetch budget). For every key, the retrievals started are at most
\* 1 + the retrievals failed for the key + the calls of clearCache.
C13_FetchBudget ==
    \A k \in Keys : starts[k] <= 1 + failures[k] + clears

\* The budget of a key is used up after a failure and a clearCache: three
\* retrievals were started for it.
C13_Witness ==
    \E k \in Keys :
        /\ starts[k] = 1 + failures[k] + clears
        /\ failures[k] >= 1
        /\ clears >= 1

-----------------------------------------------------------------------------
(* C14 *)

\* C14 (errors pass through the searches unchanged). A search that resumes
\* from a failed retrieval fails with the error of that retrieval, and the
\* searches waiting on a key at the same time fail with the same error: a
\* search that awaits loadAll while a retrieval for its key is in flight
\* with searches suspended on it is bound to that retrieval.  (Retrievals
\* cut off by clearCache are not counted: the reading most favourable to
\* the code.)
C14_ErrorsPassThrough ==
    /\ query.op = "resumed" /\ ret[event.r].st = "rejected"
       => query.out = Out("failed", "retrieval", event.r)
    /\ query.out.kind = "waiting"
       => \A r \in CurrentFor(CalledKey) : asking[r] > 0 => query.out.r = r

-----------------------------------------------------------------------------
(* C15 *)

\* the places of the data whose record has the trimmed string form of some
\* element of ids as its id
WantedPlaces(ids) ==
    { j \in 1..Len(quran) :
        \E i \in 1..Len(ids.v) : quran[j].id = Trim(ToStr(ids.v[i])) }

\* C15 (searchByIds result). With the language resolved and ids not empty,
\* searchByIds returns the records at the wanted places, each place once,
\* in the order of the data: the n-th wanted place gives the n-th record
\* returned.
C15_SearchByIdsResult ==
    query.op = "searchByIds" /\ query.arg.t = "array" /\ Len(query.arg.v) > 0
    => LET W == WantedPlaces(query.arg)
       IN /\ answer.kind = "records"
          /\ Len(answer.v) = Cardinality(W)
          /\ \A j \in W :
                answer.v[Cardinality({ i \in W : i <= j })] = quran[j]

\* searchByIds was asked for " 2" and "1", in this order, of data that hold
\* "1" before "2", and "1" twice: it returned three records.
C15_Witness ==
    /\ query.op = "searchByIds"
    /\ query.arg = Arr(<<Str(<<" ", "2">>), Str(<<"1">>)>>)
    /\ Len(quran) = 3
    /\ quran[1].id = <<"1">> /\ quran[2].id = <<"2">> /\ quran[3].id = <<"1">>
    /\ Len(answer.v) = 3

-----------------------------------------------------------------------------
(* C16 *)

\* the places of the data whose record has the trimmed string form of id as
\* its id
PlacesOf(id) == { j \in 1..Len(quran) : quran[j].id = Trim(ToStr(id)) }

-----------------------------------------------------------------------------
(* C17 *)

\* the trimmed string form of an id; an absent id has the empty form
TrimmedForm(id) == IF id.t = "null" THEN <<>> ELSE Trim(ToStr(id))

\* C17 (searchById id validation). searchById fails with the invalid-input
\* error exactly when the trimmed string form of the id is empty: the
\* number 0 is looked up, an id of whitespace is rejected.
C17_IdValidation ==
    query.op = "searchById"
    => ( (answer.kind = "error" /\ answer.v = "id required")
         <=> TrimmedForm(query.arg) = <<>> )

-----------------------------------------------------------------------------
(* C18 *)

\* every caller suspended on a retrieval resumes, be it a search or not
CallersResume ==
    \A r \in Retrievals :
        /\ waiting[r] > 0 ~> (event.op = "resume" /\ event.r = r)
        /\ asking[r] > 0 ~> (query.op = "resumed" /\ event.r = r)

\* no entry holds the promise of an unsettled retrieval forever
NoEntryPendingForever ==
    \A k \in Keys :
        (cache[k].kind = "promise" /\ InFlight(cache[k].r))
            ~> ~(cache[k].kind = "promise" /\ InFlight(cache[k].r))

\* while a retrieval is unsettled none of its callers resumes, and only
\* clearCache changes the entry that holds its promise
UnsettledStays ==
    [][ \A r \in Retrievals :
           InFlight(r) /\ ret'[r].st \in { "fetching", "parsing" }
           => /\ waiting'[r] >= waiting[r]
              /\ asking'[r] >= asking[r]
              /\ \A k \in Keys :
                    cache[k] = PromiseOf(r) /\ event'.op # "clearCache"
                    => cache'[k] = cache[k] ]_vars

\* C18 (progress). When the transport settles every request, every call of
\* loadAll and every search returns or fails and no entry stays pending
\* forever; and for as long as a retrieval has not settled its entry stays
\* pending (clearCache apart) and its callers stay suspended.
C18_Progress ==
    /\ CallersResume
    /\ NoEntryPendingForever
    /\ UnsettledStays

-----------------------------------------------------------------------------
(* C19 *)

\* C19 (the cache is updated before the callers resume). Without
\* clearCache: a caller that has just resumed from a retrieval and calls
\* loadAll of its key at once is, after a failure, not handed that failure
\* again (it starts a retrieval, or is bound to one that has not failed),
\* and after a success is served the data of that retrieval from the cache.
C19_UpdatedBeforeResume ==
    [][ \A l \in Given :
           /\ event.op = "resume"
           /\ event'.op = "loadAll"
           /\ event'.lang = l
           /\ SafeLanguage(l) = ret[event.r].key
           => IF event.st = "failed"
              THEN \/ event'.how = "started"
                   \/ ret'[event'.r].st # "rejected"
              ELSE /\ event'.how = "hit"
                   /\ event'.r = event.r ]_vars

-----------------------------------------------------------------------------
(* C20 *)

\* the keys whose entry the step changed
Changed == { k \in Keys : cache'[k] # cache[k] }

\* C20 (per-key isolation). A call of loadAll changes at most the entry of
\* its own key, a step of a retrieval at most the entry of the key it was
\* started for; a step of a search changes the cache only by the call of
\* loadAll it makes, when that starts a retrieval; and only clearCache
\* changes the entries of more than one key.
C20_PerKeyIsolation ==
    [][ /\ event'.op = "loadAll" /\ event'.how = "invalid" => Changed = {}
        /\ event'.op = "loadAll" /\ event'.how # "invalid"
           => Changed \subseteq { SafeLanguage(event'.lang) }
        /\ event'.op = "retrieval" => Changed \subseteq { ret[event'.r].key }
        /\ query'.op # "none" /\ Changed # {}
           => /\ event'.op = "loadAll"
              /\ event'.how = "started"
              /\ cache'[SafeLanguage(event'.lang)] = PromiseOf(event'.r)
        /\ Cardinality(Changed) > 1 => event'.op = "clearCache" ]_vars

\* A retrieval has just failed and removed its entry while another key is
\* pending and keeps its entry.
C20_Witness ==
    /\ event.op = "retrieval"
    /\ ret[event.r].st = "rejected"
    /\ cache[ret[event.r].key] = Absent
    /\ \E k \in Keys : k # ret[event.r].key /\ cache[k].kind = "promise"

====
